---- MODULE Spec2Model ----
(***************************************************************************)
(* Model of the file-based JSON store of main.go: Driver.Write, Read,      *)
(* ReadAll, Delete, getOrCreateMutex and stat, run by concurrent callers   *)
(* over a filesystem of directories, directory entries and inodes.         *)
(*                                                                         *)
(* A library call of the program (os.MkdirAll, os.Rename, ioutil.ReadDir,   *)
(* ioutil.ReadFile, os.Remove, os.RemoveAll) is the sequence of system     *)
(* calls it makes, one step each, so that other callers run in between.    *)
(*                                                                         *)
(* Strings are sequences of tokens: a token is a run of characters that    *)
(* the program never looks inside ("c", "n", ".json", ".tmp", "db") or the *)
(* path separator "/".  A name is a string without "/"; a path is the      *)
(* sequence of its names, the way filepath.Clean leaves it.                *)
(***************************************************************************)
EXTENDS Integers, Sequences, FiniteSets, TLC

\* ------------------------------------------------------------------ bounds
NumProcs == 2
\* Calls made in all by the concurrent callers of Spec.
MaxOps == 2
\* Calls made in all by the single caller of SpecSeq.
MaxSeqOps == 3

\* ------------------------------------------------------------ input sets
Procs == 1..NumProcs

Ext == ".json"
TmpExt == ".tmp"
Sep == "/"

\* Collection names are any strings: "c" and "c/" are two names, and two keys
\* of the lock registry, for the one directory filepath.Join makes of them.
Collections == { <<>>, <<"c">>, <<"c", Sep>>, <<"c", Sep, "n">>, <<"c", Sep, "n", Ext>> }
Resources == { <<>>, <<"n">>, <<"n", Ext>> }

\* A record is a JSON number; Unserializable stands for a value
\* json.MarshalIndent rejects (a channel, a function).
Unserializable == -1
GoodValues == {7, 12}
Values == GoodValues \cup {Unserializable}

\* --------------------------------------------------------------- strings
RECURSIVE SplitFrom(_, _, _)
SplitFrom(s, i, cur) ==
    IF i > Len(s)
    THEN IF cur = <<>> THEN <<>> ELSE <<cur>>
    ELSE IF s[i] = Sep
         THEN (IF cur = <<>> THEN <<>> ELSE <<cur>>) \o SplitFrom(s, i + 1, <<>>)
         ELSE SplitFrom(s, i + 1, Append(cur, s[i]))

\* The names of a slash-separated string, empty names dropped.
Split(s) == SplitFrom(s, 1, <<>>)

\* filepath.Join of a cleaned path and further strings: empty elements and
\* empty names vanish.
RECURSIVE Join(_, _)
Join(base, elems) ==
    IF elems = <<>> THEN base ELSE Join(base \o Split(Head(elems)), Tail(elems))

\* path + ".json": the suffix lands on the last name of the path.
AddSuffix(path, tok) ==
    [path EXCEPT ![Len(path)] = Append(@, tok)]

Parent(path) == SubSeq(path, 1, Len(path) - 1)
Base(path) == path[Len(path)]

IsPrefix(p, q) == Len(p) <= Len(q) /\ SubSeq(q, 1, Len(p)) = p

\* Byte order of the first character of each token.
TokRank(t) ==
    CASE t = Ext -> 1
      [] t = TmpExt -> 2
      [] t = "c" -> 3
      [] t = "db" -> 4
      [] t = "n" -> 5
      [] OTHER -> 6

RECURSIVE NameLess(_, _)
NameLess(a, b) ==
    IF a = <<>> THEN b # <<>>
    ELSE IF b = <<>> THEN FALSE
    ELSE IF Head(a) = Head(b) THEN NameLess(Tail(a), Tail(b))
    ELSE TokRank(Head(a)) < TokRank(Head(b))

RECURSIVE SortNames(_)
SortNames(S) ==
    IF S = {} THEN <<>>
    ELSE LET m == CHOOSE x \in S : \A y \in S \ {x} : NameLess(x, y)
         IN <<m>> \o SortNames(S \ {m})

\* ------------------------------------------------------------------ JSON
DigitChar == <<"0", "1", "2", "3", "4", "5", "6", "7", "8", "9">>

RECURSIVE Digits(_)
Digits(n) ==
    IF n < 10 THEN <<DigitChar[n + 1]>>
    ELSE Digits(n \div 10) \o <<DigitChar[(n % 10) + 1]>>

\* json.MarshalIndent(v, "", "\t"): the decimal digits of a number.
MarshalIndent(v) ==
    IF v = Unserializable
    THEN [err |-> "json: unsupported type", b |-> <<>>]
    ELSE [err |-> "nil", b |-> Digits(v)]

IsDigit(ch) == \E i \in 1..10 : DigitChar[i] = ch
DigitVal(ch) == (CHOOSE i \in 1..10 : DigitChar[i] = ch) - 1

RECURSIVE StripSpace(_)
StripSpace(b) ==
    IF b # <<>> /\ b[Len(b)] = "\n" THEN StripSpace(SubSeq(b, 1, Len(b) - 1))
    ELSE b

RECURSIVE ParseDigits(_, _)
ParseDigits(b, acc) ==
    IF b = <<>> THEN acc ELSE ParseDigits(Tail(b), acc * 10 + DigitVal(Head(b)))

\* json.Unmarshal: one number, white space allowed after it.
Unmarshal(b) ==
    LET t == StripSpace(b)
    IN IF t = <<>> \/ \E i \in 1..Len(t) : ~IsDigit(t[i])
       THEN [err |-> "json: syntax error", val |-> 0]
       ELSE [err |-> "nil", val |-> ParseDigits(t, 0)]

\* The bytes Write puts in the file of a value.
Encode(v) == Append(MarshalIndent(v).b, "\n")

\* ------------------------------------------------------------ filesystem
\* A filesystem is a function from the paths that exist to their entries;
\* a file entry names its inode, and the contents live in the inode table,
\* so an open descriptor keeps writing to its inode after a rename or an
\* unlink of the path it was opened by.  <<>> is the working directory.
\* Every operator below is one system call: the library calls of the program
\* (os.MkdirAll, os.Rename, ioutil.ReadDir, os.Remove, os.RemoveAll, stat)
\* are sequences of them, and other callers run in between.
DirEntry == [kind |-> "dir", ino |-> 0]
FileEntry(i) == [kind |-> "file", ino |-> i]

\* New(dir, nil) with dir = "db": filepath.Clean(dir).
Dir == Join(<<>>, << <<"db">> >>)

\* The error of a lookup that does not find p.
MissingErr(f, p) ==
    IF \E k \in 1..Len(p) : SubSeq(p, 1, k) \in DOMAIN f /\ f[SubSeq(p, 1, k)].kind = "file"
    THEN "ENOTDIR" ELSE "ENOENT"

\* os.Stat(p), os.Lstat(p)
OsStat(f, p) ==
    IF p \in DOMAIN f THEN [err |-> "nil", kind |-> f[p].kind]
    ELSE [err |-> MissingErr(f, p), kind |-> "none"]

IsNotExist(err) == err = "ENOENT"

Extend(f, new, entry) ==
    [q \in DOMAIN f \cup new |-> IF q \in DOMAIN f THEN f[q] ELSE entry]

Restrict(f, keep) == [q \in keep |-> f[q]]

Prefixes(p) == { SubSeq(p, 1, k) : k \in 0..Len(p) }

Children(f, p) == { q \in DOMAIN f : Len(q) = Len(p) + 1 /\ IsPrefix(p, q) }

Subtree(f, p) == { q \in DOMAIN f : IsPrefix(p, q) }

\* os.Mkdir(p)
Mkdir(f, p) ==
    IF p \in DOMAIN f THEN [err |-> "EEXIST", fs |-> f]
    ELSE IF Parent(p) \notin DOMAIN f THEN [err |-> MissingErr(f, p), fs |-> f]
    ELSE IF f[Parent(p)].kind = "file" THEN [err |-> "ENOTDIR", fs |-> f]
    ELSE [err |-> "nil", fs |-> Extend(f, {p}, DirEntry)]

FreshIno(ino) == CHOOSE i \in 1..(Cardinality(DOMAIN ino) + 1) : i \notin DOMAIN ino

\* os.OpenFile(p, O_WRONLY|O_CREATE|O_TRUNC, 0644)
OpenTrunc(f, ino, p) ==
    IF Parent(p) \notin DOMAIN f
    THEN [err |-> MissingErr(f, p), fs |-> f, inodes |-> ino, fd |-> 0]
    ELSE IF f[Parent(p)].kind = "file"
    THEN [err |-> "ENOTDIR", fs |-> f, inodes |-> ino, fd |-> 0]
    ELSE IF p \in DOMAIN f /\ f[p].kind = "dir"
    THEN [err |-> "EISDIR", fs |-> f, inodes |-> ino, fd |-> 0]
    ELSE IF p \in DOMAIN f
    THEN [err |-> "nil", fs |-> f,
          inodes |-> [ino EXCEPT ![f[p].ino] = <<>>], fd |-> f[p].ino]
    ELSE LET i == FreshIno(ino)
         IN [err |-> "nil", fs |-> Extend(f, {p}, FileEntry(i)),
             inodes |-> Extend(ino, {i}, <<>>), fd |-> i]

\* One byte written through a descriptor at its offset.
WriteAt(content, off, byte) ==
    [i \in 1..(IF off + 1 > Len(content) THEN off + 1 ELSE Len(content)) |->
        IF i = off + 1 THEN byte
        ELSE IF i <= Len(content) THEN content[i] ELSE "NUL"]

\* syscall.Rename(old, new)
Rename(f, old, new) ==
    IF old \notin DOMAIN f THEN [err |-> MissingErr(f, old), fs |-> f]
    ELSE IF Parent(new) \notin DOMAIN f THEN [err |-> MissingErr(f, new), fs |-> f]
    ELSE IF f[Parent(new)].kind = "file" THEN [err |-> "ENOTDIR", fs |-> f]
    ELSE IF new \in DOMAIN f /\ f[old].kind = "file" /\ f[new].kind = "dir"
    THEN [err |-> "EISDIR", fs |-> f]
    ELSE IF new \in DOMAIN f /\ f[old].kind = "dir" /\ f[new].kind = "file"
    THEN [err |-> "ENOTDIR", fs |-> f]
    ELSE IF new \in DOMAIN f /\ f[old].kind = "dir" /\ Children(f, new) # {}
    THEN [err |-> "ENOTEMPTY", fs |-> f]
    ELSE IF old = new THEN [err |-> "nil", fs |-> f]
    ELSE LET moved == Subtree(f, old)
             dest(q) == new \o SubSeq(q, Len(old) + 1, Len(q))
             kept == (DOMAIN f \ moved) \ Subtree(f, new)
         IN [err |-> "nil",
             fs |-> [q \in kept \cup { dest(m) : m \in moved } |->
                       IF q \in kept THEN f[q]
                       ELSE f[CHOOSE m \in moved : dest(m) = q]]]

\* os.Open(p): a file gives its inode, a directory gives descriptor 0 and
\* its kind.
Open(f, p) ==
    IF p \notin DOMAIN f THEN [err |-> MissingErr(f, p), kind |-> "none", fd |-> 0]
    ELSE [err |-> "nil", kind |-> f[p].kind, fd |-> f[p].ino]

\* The names a directory listing of p returns; none if p cannot be listed.
Readdirnames(f, p) ==
    IF p \in DOMAIN f /\ f[p].kind = "dir" THEN { Base(q) : q \in Children(f, p) } ELSE {}

\* A removal that takes the directory of the file with it.
UnlinkWithDir(f, p) ==
    IF p \notin DOMAIN f THEN [err |-> MissingErr(f, p), fs |-> f]
    ELSE IF f[p].kind = "dir" THEN [err |-> "EISDIR", fs |-> f]
    ELSE [err |-> "nil", fs |-> Restrict(f, DOMAIN f \ Subtree(f, Parent(p)))]

\* syscall.Unlink(p)
Unlink(f, p) ==
    IF p \notin DOMAIN f THEN [err |-> MissingErr(f, p), fs |-> f]
    ELSE IF f[p].kind = "dir" THEN [err |-> "EISDIR", fs |-> f]
    ELSE [err |-> "nil", fs |-> Restrict(f, DOMAIN f \ {p})]

\* syscall.Rmdir(p)
Rmdir(f, p) ==
    IF p \notin DOMAIN f THEN [err |-> MissingErr(f, p), fs |-> f]
    ELSE IF f[p].kind = "file" THEN [err |-> "ENOTDIR", fs |-> f]
    ELSE IF Children(f, p) # {} THEN [err |-> "ENOTEMPTY", fs |-> f]
    ELSE [err |-> "nil", fs |-> Restrict(f, DOMAIN f \ {p})]

\* The inodes still reachable: linked from a path or held open.
Collect(f, ino, fds) ==
    Restrict(ino, { i \in DOMAIN ino : i \in fds \/ \E q \in DOMAIN f : f[q] = FileEntry(i) })

\* ----------------------------------------------------------------- state
VARIABLES
    fs,          \* path -> entry: the directory tree under the working directory
    inodes,      \* inode -> bytes
    mutexes,     \* Driver.mutexes: collection name -> mutex instance
    mutexState,  \* mutex instance -> locked?
    regLocked,   \* Driver.mutex locked?
    pc,          \* where each caller is
    loc,         \* the locals of the call each caller is in
    ret,         \* what each caller's last call returned, and what it did
    written,     \* the <<collection, resource, value>> of every Write called
    nops,        \* calls made so far
    callers,     \* the callers that make calls in this run
    limit        \* the number of calls made in this run

vars == <<fs, inodes, mutexes, mutexState, regLocked, pc, loc, ret, written, nops,
          callers, limit>>

\* The locals of a call.  k is the path prefix os.MkdirAll works on, err an
\* error kept for later, names and found the directory entries ReadDir has
\* still to look at and has found, dirs the directories os.RemoveAll has open
\* (outermost first), name the entry os.RemoveAll is removing.
NoLocals ==
    [op |-> "none", c |-> <<>>, r |-> <<>>, v |-> 0, m |-> 0, path |-> <<>>,
     b |-> <<>>, fd |-> 0, off |-> 0, files |-> <<>>, records |-> <<>>,
     kind |-> "none", held |-> FALSE, changed |-> {}, conc |-> FALSE,
     ticket |-> 0, k |-> 0, err |-> "nil", names |-> {}, found |-> {},
     dirs |-> <<>>, name |-> <<>>]

NoReturn ==
    [op |-> "none", c |-> <<>>, r |-> <<>>, v |-> 0, err |-> "nil", val |-> 0,
     records |-> <<>>, m |-> 0, changed |-> {}, conc |-> FALSE, n |-> 0,
     ticket |-> 0]

\* What a reader of path p finds.
Image(f, ino, p) ==
    IF p \notin DOMAIN f THEN [kind |-> "absent", b |-> <<>>]
    ELSE IF f[p].kind = "dir" THEN [kind |-> "dir", b |-> <<>>]
    ELSE [kind |-> "file", b |-> ino[f[p].ino]]

\* The paths whose image differs between two filesystems.
Changed(f, ino, g, jno) ==
    { q \in DOMAIN f \cup DOMAIN g : Image(f, ino, q) # Image(g, jno, q) }

OpenFds(l) == { l[q].fd : q \in { x \in Procs : l[x].fd # 0 } }

\* An open directory: the path it was opened by, whether the directory has
\* been removed since, the entries still to remove from it, and the first
\* error met below it.
OpenDir(path, names) == [path |-> path, dead |-> FALSE, names |-> names, err |-> "nil"]

\* The directories of f that are no longer there in g.
Gone(f, g) ==
    { q \in DOMAIN f : f[q].kind = "dir" /\ (q \notin DOMAIN g \/ g[q].kind # "dir") }

\* The locals of a call once the directories in gone are removed: a
\* descriptor open on one of them refers to no directory any more.
Forget(l, gone) ==
    IF gone = {} \/ l.dirs = <<>> THEN l
    ELSE [l EXCEPT !.dirs = [i \in DOMAIN l.dirs |->
                               IF l.dirs[i].path \in gone
                               THEN [l.dirs[i] EXCEPT !.dead = TRUE]
                               ELSE l.dirs[i]]]

\* The store New(dir, nil) leaves: os.MkdirAll(dir), no mutex.
Store ==
    /\ fs = [q \in Prefixes(Dir) |-> DirEntry]
    /\ inodes = <<>>
    /\ mutexes = <<>>
    /\ mutexState = <<>>
    /\ regLocked = FALSE
    /\ pc = [p \in Procs |-> "idle"]
    /\ loc = [p \in Procs |-> NoLocals]
    /\ ret = [p \in Procs |-> NoReturn]
    /\ written = {}
    /\ nops = 0

\* Concurrent callers.
Init ==
    /\ Store
    /\ callers = Procs
    /\ limit = MaxOps

\* One caller, one call after the other.
InitSeq ==
    /\ Store
    /\ callers = {1}
    /\ limit = MaxSeqOps

\* A caller that may start a call: it is in no call, and the run has calls
\* left.
MayCall(p) ==
    /\ p \in callers
    /\ pc[p] = "idle"
    /\ nops < limit

\* Caller p starts a call.
CanCall(p) ==
    /\ MayCall(p)
    /\ nops' = nops + 1
    /\ UNCHANGED <<callers, limit>>

\* A step of caller p that goes on: the filesystem after it, the locals
\* after it, and the record of the paths it changed.  g and j name the values
\* of f2 and ino2, so that they are computed once.
Effect(p, l, f2, ino2) ==
    \E g \in {f2}, j \in {ino2} :
        /\ fs' = g
        /\ loc' = [q \in Procs |->
                     IF q = p
                     THEN Forget([l EXCEPT !.changed = @ \cup Changed(fs, inodes, g, j)],
                                 Gone(fs, g))
                     ELSE Forget(loc[q], Gone(fs, g))]
        /\ inodes' = Collect(g, j, OpenFds(loc'))

\* A return that leaves the mutex of the call locked.
ReturnKeepsLock(p, l, err, val, records, f2, ino2) ==
    \E g \in {f2}, j \in {ino2} :
        /\ pc' = [pc EXCEPT ![p] = "idle"]
        /\ ret' = [ret EXCEPT ![p] =
                     [op |-> l.op, c |-> l.c, r |-> l.r, v |-> l.v,
                      err |-> err, val |-> val, records |-> records, m |-> l.m,
                      changed |-> l.changed \cup Changed(fs, inodes, g, j),
                      conc |-> l.conc, ticket |-> l.ticket,
                      n |-> @.n + 1]]
        /\ fs' = g
        /\ loc' = [q \in Procs |-> IF q = p THEN NoLocals ELSE Forget(loc[q], Gone(fs, g))]
        /\ inodes' = Collect(g, j, OpenFds(loc'))
        /\ mutexState' = mutexState

\* return: the deferred mutex.Unlock() runs if the call holds its mutex, and
\* the caller is idle again.  l is the locals of the call that returns.
Return(p, l, err, val, records, f2, ino2) ==
    \E g \in {f2}, j \in {ino2} :
        /\ pc' = [pc EXCEPT ![p] = "idle"]
        /\ ret' = [ret EXCEPT ![p] =
                     [op |-> l.op, c |-> l.c, r |-> l.r, v |-> l.v,
                      err |-> err, val |-> val, records |-> records, m |-> l.m,
                      changed |-> l.changed \cup Changed(fs, inodes, g, j),
                      conc |-> l.conc, ticket |-> l.ticket,
                      n |-> @.n + 1]]
        /\ fs' = g
        /\ loc' = [q \in Procs |-> IF q = p THEN NoLocals ELSE Forget(loc[q], Gone(fs, g))]
        /\ inodes' = Collect(g, j, OpenFds(loc'))
        /\ mutexState' = IF l.held THEN [mutexState EXCEPT ![l.m] = FALSE] ELSE mutexState

\* A step of caller p that changes its locals only.
Local(p, l, next) ==
    /\ loc' = [loc EXCEPT ![p] = l]
    /\ pc' = [pc EXCEPT ![p] = next]
    /\ UNCHANGED <<fs, inodes, mutexState, ret>>

\* The locals of a call that starts; conc records that a Write of another
\* caller is in flight.
Call(op, c, r, v) ==
    [NoLocals EXCEPT !.op = op, !.c = c, !.r = r, !.v = v,
                     !.conc = \E q \in Procs : loc[q].op = "write"]

\* The locals of all callers once caller p has started a Write.
StartWrite(p, c, r, v) ==
    [q \in Procs |->
        IF q = p THEN Call("write", c, r, v)
        ELSE IF loc[q].op # "none" THEN [loc[q] EXCEPT !.conc = TRUE]
        ELSE loc[q]]

\* ------------------------------------------------------ getOrCreateMutex
\* A lookup that makes a new mutex on every call.
getOrCreateMutexAlways(reg, collection) ==
    LET m == Cardinality(DOMAIN mutexState) + 1
    IN [m |-> m, mutexes |-> [k \in DOMAIN reg \cup {collection} |->
                                IF k = collection THEN m ELSE reg[k]]]

\* A lookup that hands the same mutex to every collection.
getOrCreateMutexShared(reg, collection) ==
    [m |-> 1, mutexes |-> [k \in DOMAIN reg \cup {collection} |-> 1]]

\* The mutex of a collection and the registry after the lookup.
getOrCreateMutex(reg, collection) ==
    IF collection \in DOMAIN reg
    THEN [m |-> reg[collection], mutexes |-> reg]
    ELSE LET m == Cardinality(DOMAIN reg) + 1
         IN [m |-> m, mutexes |-> Extend(reg, {collection}, m)]

\* d.mutex.Lock()
GetMutexLock(p) ==
    /\ pc[p] = "gm_lock"
    /\ ~regLocked
    /\ regLocked' = TRUE
    /\ pc' = [pc EXCEPT ![p] = "gm_body"]
    /\ UNCHANGED <<fs, inodes, mutexes, mutexState, loc, ret, written, nops, callers, limit>>

\* A lookup that returns without the deferred d.mutex.Unlock().
GetMutexBodyKeepsLock(p) ==
    /\ pc[p] = "gm_body"
    /\ LET g == getOrCreateMutex(mutexes, loc[p].c)
       IN /\ mutexes' = g.mutexes
          /\ mutexState' = Extend(mutexState, {g.m}, FALSE)
          /\ loc' = [loc EXCEPT ![p].m = g.m]
    /\ pc' = [pc EXCEPT ![p] = "lock"]
    /\ UNCHANGED <<fs, inodes, regLocked, ret, written, nops, callers, limit>>

\* lookup or insert, then the deferred d.mutex.Unlock()
GetMutexBody(p) ==
    /\ pc[p] = "gm_body"
    /\ LET g == getOrCreateMutex(mutexes, loc[p].c)
       IN /\ mutexes' = g.mutexes
          /\ mutexState' = Extend(mutexState, {g.m}, FALSE)
          /\ loc' = [loc EXCEPT ![p].m = g.m]
    /\ regLocked' = FALSE
    /\ pc' = [pc EXCEPT ![p] = "lock"]
    /\ UNCHANGED <<fs, inodes, ret, written, nops, callers, limit>>

\* The place in the order of lock acquisitions of the latest one among the
\* calls in flight and the calls last returned.
LastTicket ==
    LET T == { loc[q].ticket : q \in Procs } \cup { ret[q].ticket : q \in Procs }
    IN CHOOSE t \in T : \A u \in T : u <= t

\* mutex.Lock() of Write and Delete; ticket records the order of acquisition.
\* Write goes on to os.MkdirAll(dir), Delete to stat(dir).
MutexLock(p) ==
    /\ pc[p] = "lock"
    /\ ~mutexState[loc[p].m]
    /\ mutexState' = [mutexState EXCEPT ![loc[p].m] = TRUE]
    /\ loc' = [loc EXCEPT ![p] =
                 IF loc[p].op = "write"
                 THEN [loc[p] EXCEPT !.held = TRUE, !.ticket = LastTicket + 1,
                                     !.path = Join(Dir, <<loc[p].c>>),
                                     !.k = Len(Join(Dir, <<loc[p].c>>))]
                 ELSE [loc[p] EXCEPT !.held = TRUE, !.ticket = LastTicket + 1]]
    /\ pc' = [pc EXCEPT ![p] = IF loc[p].op = "write" THEN "w_mkdir_stat" ELSE "stat"]
    /\ UNCHANGED <<fs, inodes, mutexes, regLocked, ret, written, nops, callers, limit>>

\* ----------------------------------------------------------------- Write
WriteDir(c) == Join(Dir, <<c>>)
FnlPath(c, r) == Join(WriteDir(c), <<Append(r, Ext)>>)
TempPath(c, r) == AddSuffix(FnlPath(c, r), TmpExt)

\* A rename whose target is built from a fixed resource name.
RenameTargetFixed(c, r) == FnlPath(c, <<"n">>)

\* The path the rename of a Write replaces.
RenameTarget(c, r) == FnlPath(c, r)

\* A check that forgets the resource.
WriteCheckCollectionOnly(c, r) ==
    IF c = <<>> THEN "Missing collection" ELSE "nil"

\* The checks Write makes of its arguments before it does anything.
WriteCheck(c, r) ==
    IF c = <<>> THEN "Missing collection"
    ELSE IF r = <<>> THEN "Missing resource"
    ELSE "nil"

WriteCall(p, c, r, v) ==
    /\ CanCall(p)
    /\ written' = written \cup {<<c, r, v>>}
    /\ IF WriteCheck(c, r) # "nil"
       THEN /\ Return(p, Call("write", c, r, v), WriteCheck(c, r), 0, <<>>, fs, inodes)
            /\ UNCHANGED <<mutexes, regLocked>>
       ELSE /\ pc' = [pc EXCEPT ![p] = "gm_lock"]
            /\ loc' = StartWrite(p, c, r, v)
            /\ UNCHANGED <<fs, inodes, mutexes, mutexState, regLocked, ret>>

\* The path the running level of os.MkdirAll was called with.
MkdirAllPrefix(l) == SubSeq(l.path, 1, l.k)

\* The level of os.MkdirAll that works on prefix k returns nil: the level that
\* called it goes on to its Mkdir, and the outermost one returns to Write.
MkdirAllDone(p, l, f2) ==
    /\ Effect(p, [l EXCEPT !.k = IF l.k = Len(l.path) THEN 0 ELSE l.k + 1,
                           !.err = "nil"], f2, inodes)
    /\ pc' = [pc EXCEPT ![p] = IF l.k = Len(l.path) THEN "w_marshal" ELSE "w_mkdir"]
    /\ UNCHANGED <<mutexState, ret>>

\* os.MkdirAll, Stat(path): a directory ends this level, a file ends the
\* call with ENOTDIR, an error sends it to the parent, if there is one
WriteMkdirAllStat(p) ==
    /\ pc[p] = "w_mkdir_stat"
    /\ \E st \in {OsStat(fs, MkdirAllPrefix(loc[p]))} :
          IF st.err = "nil" /\ st.kind = "dir" THEN MkdirAllDone(p, loc[p], fs)
          ELSE IF st.err = "nil" THEN Return(p, loc[p], "ENOTDIR", 0, <<>>, fs, inodes)
          ELSE IF loc[p].k > 1 THEN Local(p, [loc[p] EXCEPT !.k = @ - 1], "w_mkdir_stat")
          ELSE Local(p, loc[p], "w_mkdir")
    /\ UNCHANGED <<mutexes, regLocked, written, nops, callers, limit>>

\* os.MkdirAll, Mkdir(path) once the parent is there
WriteMkdirAllMkdir(p) ==
    /\ pc[p] = "w_mkdir"
    /\ \E res \in {Mkdir(fs, MkdirAllPrefix(loc[p]))} :
          IF res.err = "nil" THEN MkdirAllDone(p, loc[p], res.fs)
          ELSE Local(p, [loc[p] EXCEPT !.err = res.err], "w_mkdir_lstat")
    /\ UNCHANGED <<mutexes, regLocked, written, nops, callers, limit>>

\* os.MkdirAll, Lstat(path) after a failed Mkdir: a directory makes the level
\* succeed, anything else returns the error of the Mkdir
WriteMkdirAllLstat(p) ==
    /\ pc[p] = "w_mkdir_lstat"
    /\ \E st \in {OsStat(fs, MkdirAllPrefix(loc[p]))} :
          IF st.err = "nil" /\ st.kind = "dir" THEN MkdirAllDone(p, loc[p], fs)
          ELSE Return(p, loc[p], loc[p].err, 0, <<>>, fs, inodes)
    /\ UNCHANGED <<mutexes, regLocked, written, nops, callers, limit>>

WriteMarshal(p) ==
    /\ pc[p] = "w_marshal"
    /\ LET res == MarshalIndent(loc[p].v)
       IN IF res.err # "nil"
          THEN Return(p, loc[p], res.err, 0, <<>>, fs, inodes)
          ELSE Local(p, [loc[p] EXCEPT !.b = Append(res.b, "\n")], "w_open")
    /\ UNCHANGED <<mutexes, regLocked, written, nops, callers, limit>>

\* ioutil.WriteFile, its open
WriteFileOpen(p) ==
    /\ pc[p] = "w_open"
    /\ \E res \in { OpenTrunc(fs, inodes, tempPath) : tempPath \in {TempPath(loc[p].c, loc[p].r)} } :
          IF res.err # "nil"
          THEN Return(p, loc[p], res.err, 0, <<>>, fs, inodes)
          ELSE /\ Effect(p, [loc[p] EXCEPT !.fd = res.fd, !.off = 0], res.fs, res.inodes)
               /\ pc' = [pc EXCEPT ![p] = "w_write"]
               /\ UNCHANGED <<mutexState, ret>>
    /\ UNCHANGED <<mutexes, regLocked, written, nops, callers, limit>>

\* ioutil.WriteFile, one byte of its write
WriteFileByte(p) ==
    /\ pc[p] = "w_write"
    /\ LET l == loc[p]
           ino2 == [inodes EXCEPT ![l.fd] = WriteAt(@, l.off, l.b[l.off + 1])]
       IN /\ Effect(p, [l EXCEPT !.off = @ + 1], fs, ino2)
          /\ pc' = [pc EXCEPT ![p] = IF l.off + 1 = Len(l.b) THEN "w_lstat" ELSE "w_write"]
    /\ UNCHANGED <<mutexes, mutexState, regLocked, ret, written, nops, callers, limit>>

\* ioutil.WriteFile's close, then os.Rename's Lstat(newname)
WriteRenameLstat(p) ==
    /\ pc[p] = "w_lstat"
    /\ \E st \in {OsStat(fs, RenameTarget(loc[p].c, loc[p].r))} :
          /\ Effect(p, [loc[p] EXCEPT !.fd = 0, !.off = 0], fs, inodes)
          /\ pc' = [pc EXCEPT ![p] = IF st.err = "nil" /\ st.kind = "dir"
                                     THEN "w_lstat_old" ELSE "w_rename"]
    /\ UNCHANGED <<mutexes, mutexState, regLocked, ret, written, nops, callers, limit>>

\* os.Rename onto a directory: Lstat(oldname), its error or EEXIST
WriteRenameLstatOld(p) ==
    /\ pc[p] = "w_lstat_old"
    /\ \E st \in {OsStat(fs, TempPath(loc[p].c, loc[p].r))} :
          Return(p, loc[p], IF st.err # "nil" THEN st.err ELSE "EEXIST", 0, <<>>, fs, inodes)
    /\ UNCHANGED <<mutexes, regLocked, written, nops, callers, limit>>

\* os.Rename, syscall.Rename(tempPath, fnlPath)
WriteRename(p) ==
    /\ pc[p] = "w_rename"
    /\ \E res \in { Rename(fs, tempPath, fnlPath) :
                        tempPath \in {TempPath(loc[p].c, loc[p].r)},
                        fnlPath \in {RenameTarget(loc[p].c, loc[p].r)} } :
          Return(p, loc[p], res.err, 0, <<>>, res.fs, inodes)
    /\ UNCHANGED <<mutexes, regLocked, written, nops, callers, limit>>

\* ------------------------------------------------------------------ stat
\* dir := filepath.Join(d.dir, path)
DeleteDir(path) == Dir \o path

\* The path Read, ReadAll and Delete hand to stat.
StatPath(l) == IF l.op = "delete" THEN DeleteDir(l.path) ELSE l.path

\* stat has returned st to its caller: Delete's switch, or the error check of
\* Read and ReadAll.
AfterStat(p, st) ==
    IF loc[p].op = "delete"
    THEN IF st.err # "nil"
         THEN Return(p, loc[p], "Unable to find file or directory", 0, <<>>, fs, inodes)
         ELSE Local(p, [loc[p] EXCEPT !.kind = st.kind], "d_unlink")
    ELSE IF st.err # "nil"
    THEN Return(p, loc[p], st.err, 0, <<>>, fs, inodes)
    ELSE Local(p, loc[p], IF loc[p].op = "read" THEN "rf_open" ELSE "ra_readdir")

\* stat, os.Stat(path)
StatFirst(p) ==
    /\ pc[p] = "stat"
    /\ \E st \in {OsStat(fs, StatPath(loc[p]))} :
          IF IsNotExist(st.err) THEN Local(p, loc[p], "stat2") ELSE AfterStat(p, st)
    /\ UNCHANGED <<mutexes, regLocked, written, nops, callers, limit>>

\* stat, os.Stat(path + ".json")
StatSecond(p) ==
    /\ pc[p] = "stat2"
    /\ \E st \in {OsStat(fs, AddSuffix(StatPath(loc[p]), Ext))} : AfterStat(p, st)
    /\ UNCHANGED <<mutexes, regLocked, written, nops, callers, limit>>

\* ------------------------------------------------------------------ Read
ReadCall(p, c, r) ==
    /\ CanCall(p)
    /\ LET l == Call("read", c, r, 0)
       IN IF c = <<>>
          THEN Return(p, l, "Missing collection", 0, <<>>, fs, inodes)
          ELSE IF r = <<>>
          THEN Return(p, l, "Missing resource", 0, <<>>, fs, inodes)
          ELSE Local(p, [l EXCEPT !.path = Join(Dir, <<c, Append(r, Ext)>>)], "stat")
    /\ UNCHANGED <<mutexes, regLocked, written>>

\* The file Read reads once stat has found the record.
ReadTarget(record) == AddSuffix(record, Ext)

\* The file ioutil.ReadFile is called with: Read's, or that of the first of
\* the files ReadAll has still to read.
ReadFilePath(l) ==
    IF l.op = "read" THEN ReadTarget(l.path) ELSE Join(l.path, << Head(l.files) >>)

\* ioutil.ReadFile, its open
ReadFileOpen(p) ==
    /\ pc[p] = "rf_open"
    /\ \E o \in {Open(fs, ReadFilePath(loc[p]))} :
          IF o.err # "nil"
          THEN Return(p, loc[p], o.err, 0, <<>>, fs, inodes)
          ELSE Local(p, [loc[p] EXCEPT !.fd = o.fd, !.kind = o.kind, !.off = 0, !.b = <<>>],
                     "rf_read")
    /\ UNCHANGED <<mutexes, regLocked, written, nops, callers, limit>>

\* ioutil.ReadFile has returned the bytes l.b: Read decodes them, ReadAll
\* appends them to its records and goes on to the next file, or returns.
ReadFileDone(p, l) ==
    IF l.op = "read"
    THEN Return(p, l, Unmarshal(l.b).err, Unmarshal(l.b).val, <<>>, fs, inodes)
    ELSE IF Len(l.files) = 1
    THEN Return(p, l, "nil", 0, Append(l.records, l.b), fs, inodes)
    ELSE /\ Effect(p, [l EXCEPT !.fd = 0, !.off = 0, !.b = <<>>, !.kind = "none",
                                !.files = Tail(@), !.records = Append(@, l.b)],
                   fs, inodes)
         /\ pc' = [pc EXCEPT ![p] = "rf_open"]
         /\ UNCHANGED <<mutexState, ret>>

\* ioutil.ReadFile, one read: the bytes from the offset to the end of the
\* file, and the end of the file when there are none; EISDIR on a directory
ReadFileRead(p) ==
    /\ pc[p] = "rf_read"
    /\ LET l == loc[p]
       IN IF l.kind = "dir"
          THEN Return(p, l, "EISDIR", 0, <<>>, fs, inodes)
          ELSE \E chunk \in {SubSeq(inodes[l.fd], l.off + 1, Len(inodes[l.fd]))} :
                  IF chunk # <<>>
                  THEN Local(p, [l EXCEPT !.b = @ \o chunk, !.off = @ + Len(chunk)], "rf_read")
                  ELSE ReadFileDone(p, l)
    /\ UNCHANGED <<mutexes, regLocked, written, nops, callers, limit>>

\* --------------------------------------------------------------- ReadAll
ReadAllCall(p, c) ==
    /\ CanCall(p)
    /\ LET l == Call("readall", c, <<>>, 0)
       IN IF c = <<>>
          THEN Return(p, l, "Missing collection", 0, <<>>, fs, inodes)
          ELSE Local(p, [l EXCEPT !.path = Join(Dir, <<c>>)], "stat")
    /\ UNCHANGED <<mutexes, regLocked, written>>

\* files, _ := ioutil.ReadDir(dir) has returned l.files: the loop over them
\* starts, or ReadAll returns no records.
ReadAllListed(p, l) ==
    IF l.files = <<>>
    THEN Return(p, l, "nil", 0, l.records, fs, inodes)
    ELSE Local(p, l, "rf_open")

\* ioutil.ReadDir, os.Open(dir) and the names Readdir reads from it; a
\* directory that cannot be opened or read gives no files
ReadAllReadDir(p) ==
    /\ pc[p] = "ra_readdir"
    /\ \E names \in {Readdirnames(fs, loc[p].path)} :
          IF names = {}
          THEN ReadAllListed(p, loc[p])
          ELSE Local(p, [loc[p] EXCEPT !.names = names, !.found = {}], "ra_lstat")
    /\ UNCHANGED <<mutexes, regLocked, written, nops, callers, limit>>

\* ioutil.ReadDir, Readdir's lstat of one of the names: a name that is gone
\* is skipped, another error makes ReadDir return no files, and after the
\* last name the files are sorted by name
ReadAllLstat(p) ==
    /\ pc[p] = "ra_lstat"
    /\ \E name \in loc[p].names :
          \E st \in {OsStat(fs, Append(loc[p].path, name))} :
             LET l == loc[p]
                 rest == l.names \ {name}
                 found == IF st.err = "nil" THEN l.found \cup {name} ELSE l.found
             IN IF st.err # "nil" /\ ~IsNotExist(st.err)
                THEN ReadAllListed(p, [l EXCEPT !.names = {}, !.found = {}])
                ELSE IF rest = {}
                THEN ReadAllListed(p, [l EXCEPT !.names = {}, !.found = {},
                                                !.files = SortNames(found)])
                ELSE Local(p, [l EXCEPT !.names = rest, !.found = found], "ra_lstat")
    /\ UNCHANGED <<mutexes, regLocked, written, nops, callers, limit>>

\* ---------------------------------------------------------------- Delete
DeleteCall(p, c, r) ==
    /\ CanCall(p)
    /\ loc' = [loc EXCEPT ![p] = [Call("delete", c, r, 0) EXCEPT !.path = Join(<<>>, <<c, r>>)]]
    /\ pc' = [pc EXCEPT ![p] = "gm_lock"]
    /\ UNCHANGED <<fs, inodes, mutexes, mutexState, regLocked, ret, written>>

\* What Delete hands to os.RemoveAll or os.Remove, given what stat found.
DeleteTarget(l) ==
    IF l.kind = "dir" THEN DeleteDir(l.path) ELSE AddSuffix(DeleteDir(l.path), Ext)

\* os.Remove, syscall.Unlink(name): of os.Remove(dir + ".json"), or the one
\* os.RemoveAll(dir) starts with
DeleteUnlink(p) ==
    /\ pc[p] = "d_unlink"
    /\ \E res \in {Unlink(fs, DeleteTarget(loc[p]))} :
          IF res.err = "nil"
          THEN Return(p, loc[p], "nil", 0, <<>>, res.fs, inodes)
          ELSE Local(p, [loc[p] EXCEPT !.err = res.err], "d_rmdir")
    /\ UNCHANGED <<mutexes, regLocked, written, nops, callers, limit>>

\* os.Remove, syscall.Rmdir(name) after the Unlink failed; os.Remove returns
\* the error of the Rmdir unless that is ENOTDIR.  os.RemoveAll is done if
\* there is no error or nothing is there, and goes on to the parent otherwise
DeleteRmdir(p) ==
    /\ pc[p] = "d_rmdir"
    /\ \E res \in {Rmdir(fs, DeleteTarget(loc[p]))} :
          LET e == IF res.err # "ENOTDIR" THEN res.err ELSE loc[p].err
          IN IF res.err = "nil"
             THEN Return(p, loc[p], "nil", 0, <<>>, res.fs, inodes)
             ELSE IF loc[p].kind # "dir"
             THEN Return(p, loc[p], e, 0, <<>>, fs, inodes)
             ELSE IF IsNotExist(e)
             THEN Return(p, loc[p], "nil", 0, <<>>, fs, inodes)
             ELSE Local(p, [loc[p] EXCEPT !.err = "nil"], "d_parent")
    /\ UNCHANGED <<mutexes, regLocked, written, nops, callers, limit>>

\* os.RemoveAll, Open(parentDir): the base name of the path is the one entry
\* to remove from the parent
DeleteOpenParent(p) ==
    /\ pc[p] = "d_parent"
    /\ \E o \in {Open(fs, Parent(DeleteTarget(loc[p])))} :
          IF IsNotExist(o.err)
          THEN Return(p, loc[p], "nil", 0, <<>>, fs, inodes)
          ELSE IF o.err # "nil"
          THEN Return(p, loc[p], o.err, 0, <<>>, fs, inodes)
          ELSE Local(p, [loc[p] EXCEPT !.dirs = << OpenDir(Parent(DeleteTarget(loc[p])),
                                                           {Base(DeleteTarget(loc[p]))}) >>],
                     "d_at")
    /\ UNCHANGED <<mutexes, regLocked, written, nops, callers, limit>>

\* The directory removeAllFrom works in, and the path of an entry of it.
Top(l) == l.dirs[Len(l.dirs)]
AtPath(l, name) == Append(Top(l).path, name)

\* removeAllFrom(parent, base) returns e for the entry l.name of the
\* directory on top.  The first error is kept.  With entries left the loop
\* goes on; after the last one the directory is closed and its own removal
\* is next; and os.RemoveAll returns when the entry was the path it was
\* called with.
AtReturn(p, l, e, f2) ==
    LET n == Len(l.dirs)
        top == [l.dirs[n] EXCEPT !.names = @ \ {l.name},
                                 !.err = IF @ = "nil" THEN e ELSE @]
    IN IF top.names # {}
       THEN /\ Effect(p, [l EXCEPT !.dirs[n] = top, !.name = <<>>, !.err = "nil"], f2, inodes)
            /\ pc' = [pc EXCEPT ![p] = "d_at"]
            /\ UNCHANGED <<mutexState, ret>>
       ELSE IF n = 1
       THEN Return(p, l, top.err, 0, <<>>, f2, inodes)
       ELSE /\ Effect(p, [l EXCEPT !.dirs = SubSeq(@, 1, n - 1), !.name = Base(top.path),
                                   !.err = top.err], f2, inodes)
            /\ pc' = [pc EXCEPT ![p] = "d_at_rmdir"]
            /\ UNCHANGED <<mutexState, ret>>

\* removeAllFrom, unlinkat(parentFd, base, 0) of one of the names: done when
\* it works or nothing is there, EISDIR leads into the directory, another
\* error is returned
DeleteAtUnlink(p) ==
    /\ pc[p] = "d_at"
    /\ \E name \in Top(loc[p]).names :
          \E res \in {IF Top(loc[p]).dead THEN [err |-> "ENOENT", fs |-> fs]
                      ELSE Unlink(fs, AtPath(loc[p], name))} :
             IF res.err = "nil" \/ IsNotExist(res.err)
             THEN AtReturn(p, [loc[p] EXCEPT !.name = name], "nil", res.fs)
             ELSE IF res.err # "EISDIR"
             THEN AtReturn(p, [loc[p] EXCEPT !.name = name], res.err, fs)
             ELSE Local(p, [loc[p] EXCEPT !.name = name, !.err = res.err], "d_at_stat")
    /\ UNCHANGED <<mutexes, regLocked, written, nops, callers, limit>>

\* removeAllFrom, fstatat(parentFd, base): is it a directory to recurse into?
DeleteAtStat(p) ==
    /\ pc[p] = "d_at_stat"
    /\ \E st \in {IF Top(loc[p]).dead THEN [err |-> "ENOENT", kind |-> "none"]
                  ELSE OsStat(fs, AtPath(loc[p], loc[p].name))} :
          IF IsNotExist(st.err) THEN AtReturn(p, loc[p], "nil", fs)
          ELSE IF st.err # "nil" THEN AtReturn(p, loc[p], st.err, fs)
          ELSE IF st.kind # "dir" THEN AtReturn(p, loc[p], loc[p].err, fs)
          ELSE Local(p, loc[p], "d_at_open")
    /\ UNCHANGED <<mutexes, regLocked, written, nops, callers, limit>>

\* removeAllFrom, openFdAt(parentFd, base) and Readdirnames: the names are
\* next to be removed; an empty directory is closed again
DeleteAtOpen(p) ==
    /\ pc[p] = "d_at_open"
    /\ \E o \in {IF Top(loc[p]).dead THEN [err |-> "ENOENT", kind |-> "none", fd |-> 0]
                 ELSE Open(fs, AtPath(loc[p], loc[p].name))} :
          IF IsNotExist(o.err) THEN AtReturn(p, loc[p], "nil", fs)
          ELSE IF o.err # "nil" THEN Local(p, [loc[p] EXCEPT !.err = o.err], "d_at_rmdir")
          ELSE IF o.kind # "dir" THEN AtReturn(p, loc[p], "ENOTDIR", fs)
          ELSE IF Readdirnames(fs, AtPath(loc[p], loc[p].name)) = {}
          THEN Local(p, [loc[p] EXCEPT !.err = "nil"], "d_at_rmdir")
          ELSE Local(p, [loc[p] EXCEPT
                            !.dirs = Append(@, OpenDir(AtPath(loc[p], loc[p].name),
                                                       Readdirnames(fs, AtPath(loc[p], loc[p].name)))),
                            !.name = <<>>, !.err = "nil"],
                     "d_at")
    /\ UNCHANGED <<mutexes, regLocked, written, nops, callers, limit>>

\* removeAllFrom, unlinkat(parentFd, base, AT_REMOVEDIR): done when it works
\* or nothing is there; else the first error met below, or its own
DeleteAtRmdir(p) ==
    /\ pc[p] = "d_at_rmdir"
    /\ \E res \in {IF Top(loc[p]).dead THEN [err |-> "ENOENT", fs |-> fs]
                   ELSE Rmdir(fs, AtPath(loc[p], loc[p].name))} :
          IF res.err = "nil" \/ IsNotExist(res.err)
          THEN AtReturn(p, loc[p], "nil", res.fs)
          ELSE AtReturn(p, loc[p], IF loc[p].err # "nil" THEN loc[p].err ELSE res.err, fs)
    /\ UNCHANGED <<mutexes, regLocked, written, nops, callers, limit>>

\* ------------------------------------------------------------------ Next
Next ==
    \E p \in Procs :
        \/ MayCall(p) /\ \E c \in Collections, r \in Resources, v \in Values : WriteCall(p, c, r, v)
        \/ GetMutexLock(p)
        \/ GetMutexBody(p)
        \/ MutexLock(p)
        \/ WriteMkdirAllStat(p)
        \/ WriteMkdirAllMkdir(p)
        \/ WriteMkdirAllLstat(p)
        \/ WriteMarshal(p)
        \/ WriteFileOpen(p)
        \/ WriteFileByte(p)
        \/ WriteRenameLstat(p)
        \/ WriteRenameLstatOld(p)
        \/ WriteRename(p)
        \/ StatFirst(p)
        \/ StatSecond(p)
        \/ MayCall(p) /\ \E c \in Collections, r \in Resources : ReadCall(p, c, r)
        \/ ReadFileOpen(p)
        \/ ReadFileRead(p)
        \/ MayCall(p) /\ \E c \in Collections : ReadAllCall(p, c)
        \/ ReadAllReadDir(p)
        \/ ReadAllLstat(p)
        \/ MayCall(p) /\ \E c \in Collections, r \in Resources : DeleteCall(p, c, r)
        \/ DeleteUnlink(p)
        \/ DeleteRmdir(p)
        \/ DeleteOpenParent(p)
        \/ DeleteAtUnlink(p)
        \/ DeleteAtStat(p)
        \/ DeleteAtOpen(p)
        \/ DeleteAtRmdir(p)

Spec == Init /\ [][Next]_vars

\* The calls and steps of a caller that is alone: the Lstat of os.MkdirAll
\* follows a failed Mkdir, and a Mkdir of a path that Stat has just found
\* missing under a parent that is a directory fails only when another caller
\* has made the path in between.
NextSeq ==
    \E p \in Procs :
        \/ MayCall(p) /\ \E c \in Collections, r \in Resources, v \in Values : WriteCall(p, c, r, v)
        \/ GetMutexLock(p)
        \/ GetMutexBody(p)
        \/ MutexLock(p)
        \/ WriteMkdirAllStat(p)
        \/ WriteMkdirAllMkdir(p)
        \/ WriteMarshal(p)
        \/ WriteFileOpen(p)
        \/ WriteFileByte(p)
        \/ WriteRenameLstat(p)
        \/ WriteRenameLstatOld(p)
        \/ WriteRename(p)
        \/ StatFirst(p)
        \/ StatSecond(p)
        \/ MayCall(p) /\ \E c \in Collections, r \in Resources : ReadCall(p, c, r)
        \/ ReadFileOpen(p)
        \/ ReadFileRead(p)
        \/ MayCall(p) /\ \E c \in Collections : ReadAllCall(p, c)
        \/ ReadAllReadDir(p)
        \/ ReadAllLstat(p)
        \/ MayCall(p) /\ \E c \in Collections, r \in Resources : DeleteCall(p, c, r)
        \/ DeleteUnlink(p)
        \/ DeleteRmdir(p)
        \/ DeleteOpenParent(p)
        \/ DeleteAtUnlink(p)
        \/ DeleteAtStat(p)
        \/ DeleteAtOpen(p)
        \/ DeleteAtRmdir(p)

SpecSeq == InitSeq /\ [][NextSeq]_vars

\* A record stored by a Write that has returned.
StoredCollection == <<"c", Sep, "n">>
StoredResource == <<"n">>
StoredValue == 7

\* Concurrent callers on a store that holds a record: the state in which
\* caller 1's Write("c/n", "n", 7) on the new store has returned, with
\* MaxOps further calls to come.
InitStored ==
    /\ fs = Extend(Extend([q \in Prefixes(Dir) |-> DirEntry],
                          Prefixes(WriteDir(StoredCollection)), DirEntry),
                   {FnlPath(StoredCollection, StoredResource)}, FileEntry(1))
    /\ inodes = Extend(<<>>, {1}, Encode(StoredValue))
    /\ mutexes = getOrCreateMutex(<<>>, StoredCollection).mutexes
    /\ mutexState = Extend(<<>>, {1}, FALSE)
    /\ regLocked = FALSE
    /\ pc = [p \in Procs |-> "idle"]
    /\ loc = [p \in Procs |-> NoLocals]
    /\ ret = [p \in Procs |->
                IF p = 1
                THEN [NoReturn EXCEPT
                        !.op = "write", !.c = StoredCollection, !.r = StoredResource,
                        !.v = StoredValue, !.m = 1, !.ticket = 1, !.n = 1,
                        !.changed = (Prefixes(WriteDir(StoredCollection)) \ Prefixes(Dir))
                                    \cup {TempPath(StoredCollection, StoredResource),
                                          FnlPath(StoredCollection, StoredResource)}]
                ELSE NoReturn]
    /\ written = {<<StoredCollection, StoredResource, StoredValue>>}
    /\ nops = 1
    /\ callers = Procs
    /\ limit = MaxOps + 1

SpecStored == InitStored /\ [][Next]_vars

\* The steps of caller p inside a call it has started.
Step(p) ==
    \/ GetMutexLock(p)
    \/ GetMutexBody(p)
    \/ MutexLock(p)
    \/ WriteMkdirAllStat(p)
    \/ WriteMkdirAllMkdir(p)
    \/ WriteMkdirAllLstat(p)
    \/ WriteMarshal(p)
    \/ WriteFileOpen(p)
    \/ WriteFileByte(p)
    \/ WriteRenameLstat(p)
    \/ WriteRenameLstatOld(p)
    \/ WriteRename(p)
    \/ StatFirst(p)
    \/ StatSecond(p)
    \/ ReadFileOpen(p)
    \/ ReadFileRead(p)
    \/ ReadAllReadDir(p)
    \/ ReadAllLstat(p)
    \/ DeleteUnlink(p)
    \/ DeleteRmdir(p)
    \/ DeleteOpenParent(p)
    \/ DeleteAtUnlink(p)
    \/ DeleteAtStat(p)
    \/ DeleteAtOpen(p)
    \/ DeleteAtRmdir(p)

\* The collection names and values the callers of SpecFair pass.
FairCollections == { <<>>, <<"c">>, <<"c", Sep, "n", Ext>> }
FairValues == {StoredValue, Unserializable}

\* The calls and steps of callers that pass these arguments.
NextFair ==
    \E p \in Procs :
        \/ MayCall(p) /\ \E c \in FairCollections, r \in Resources, v \in FairValues : WriteCall(p, c, r, v)
        \/ MayCall(p) /\ \E c \in FairCollections, r \in Resources : ReadCall(p, c, r)
        \/ MayCall(p) /\ \E c \in FairCollections : ReadAllCall(p, c)
        \/ MayCall(p) /\ \E c \in FairCollections, r \in Resources : DeleteCall(p, c, r)
        \/ Step(p)

\* Concurrent callers under the Go scheduler: a goroutine that can run does
\* run.  A goroutine waiting for a sync.Mutex can run once the mutex is
\* unlocked; with a bounded number of calls weak fairness is all that is asked.
SpecFair ==
    /\ Init
    /\ [][NextFair]_vars
    /\ \A p \in Procs : WF_vars(Step(p))

\* ================================================================ claims
NonEmpty(S) == S \ {<<>>}

\* The serializations of the values passed to Write(c, r, _), under any name
\* of collection c: the Writes whose final file is the final file of (c, r).
WrittenTo(c, r) ==
    { Encode(t[3]) : t \in { w \in written : /\ w[3] \in GoodValues
                                             /\ FnlPath(w[1], w[2]) = FnlPath(c, r) } }

CompleteRecords == { Encode(v) : v \in GoodValues }

NotFoundErrs == {"ENOENT", "ENOTDIR", "Unable to find file or directory"}

\* C1: a successful Write(c, r, v) followed, with no call in between, by
\* Read(c, r) makes the Read succeed and return v.
C1_RoundTrip ==
    [][\A p \in Procs :
         (/\ ret'[p].n = ret[p].n + 1
          /\ ret'[p].op = "read"
          /\ ret[p].op = "write" /\ ret[p].err = "nil"
          /\ ret'[p].c = ret[p].c /\ ret'[p].r = ret[p].r)
         => (ret'[p].err = "nil" /\ ret'[p].val = ret[p].v)]_vars

\* C2: in every state the final path of every resource is absent or is a file
\* that holds the complete serialization of a value passed to Write(c, r, _).
C2_FinalFileComplete ==
    \A c \in NonEmpty(Collections), r \in NonEmpty(Resources) :
        LET img == Image(fs, inodes, FnlPath(c, r))
        IN img.kind = "file" => img.b \in WrittenTo(c, r)

\* C3: a ReadAll that ran while a Write was in flight returns only complete
\* serialized records.
C3_ReadAllComplete ==
    \A p \in Procs :
        (ret[p].op = "readall" /\ ret[p].err = "nil" /\ ret[p].conc)
        => \A i \in 1..Len(ret[p].records) : ret[p].records[i] \in CompleteRecords

\* C4: at most one Write or Delete of a collection is between the acquisition
\* of the collection's lock and its return.
C4_MutualExclusion ==
    \A p, q \in Procs :
        (p # q /\ loc[p].held /\ loc[q].held) => loc[p].c # loc[q].c

\* One call holds the lock of a collection and a call on another resource of
\* the same collection waits for it.
C4_Witness ==
    \E p, q \in Procs :
        /\ loc[p].held /\ pc[q] = "lock"
        /\ loc[p].c = loc[q].c /\ loc[p].r # loc[q].r
        /\ mutexState[loc[q].m]

\* The callers that have made a call.
Called == { p \in Procs : ret[p].n > 0 \/ pc[p] # "idle" }

\* Every call made so far is one successful Write per caller, all to one
\* collection, to pairwise different resources, and all have returned.
C5_Writers ==
    /\ Cardinality(Called) >= 2
    /\ nops = Cardinality(Called)
    /\ \A p \in Called : pc[p] = "idle" /\ ret[p].op = "write" /\ ret[p].err = "nil"
    /\ \A p, q \in Called : ret[p].c = ret[q].c /\ (p # q => ret[p].r # ret[q].r)

\* C5: after concurrent Writes to one collection and different resources have
\* all returned successfully, each final file holds its own writer's value.
C5_NoCorruption ==
    C5_Writers =>
        \A p \in Called :
            Image(fs, inodes, FnlPath(ret[p].c, ret[p].r)) =
                [kind |-> "file", b |-> Encode(ret[p].v)]

\* Two such Writes that overlapped in time have returned.
C5_Witness ==
    /\ C5_Writers
    /\ \A p \in Called : ret[p].conc

\* C6: a Write that returns an error has not changed what is at its final
\* path: the version before it is intact, or the file is still absent.
C6_FailedWriteKeepsFinal ==
    \A p \in Procs :
        (ret[p].op = "write" /\ ret[p].err # "nil")
        => FnlPath(ret[p].c, ret[p].r) \notin ret[p].changed

\* C7: a Write whose value does not serialize returns an error and has changed
\* nothing in the filesystem.
C7_NoMutationOnMarshalError ==
    \A p \in Procs :
        (ret[p].op = "write" /\ ret[p].err = MarshalIndent(Unserializable).err)
        => ret[p].changed = {}

InvalidArgumentErrs == {"Missing collection", "Missing resource"}

\* Caller p starts Write(c, r, _) in this step.
WriteStarts(p, c, r) ==
    /\ pc[p] = "idle"
    /\ \/ loc'[p].op = "write" /\ loc'[p].c = c /\ loc'[p].r = r
       \/ ret'[p].n = ret[p].n + 1 /\ ret'[p].op = "write" /\ ret'[p].c = c /\ ret'[p].r = r

\* C8: a Write with an empty collection or an empty resource returns an
\* InvalidArgument error at once; the filesystem, the locks and the lock
\* registry are as before.
C8_InvalidArgument ==
    [][\A p \in Procs, c \in Collections, r \in Resources :
         (WriteStarts(p, c, r) /\ (c = <<>> \/ r = <<>>))
         => /\ pc'[p] = "idle"
            /\ ret'[p].err \in InvalidArgumentErrs
            /\ ret'[p].m = 0
            /\ UNCHANGED <<fs, inodes, mutexes, mutexState, regLocked>>]_vars

\* A Write with an empty argument has returned in a store that holds records
\* and locks.
C8_Witness ==
    \E p \in Procs :
        /\ ret[p].op = "write" /\ ret[p].err \in InvalidArgumentErrs
        /\ DOMAIN mutexes # {} /\ DOMAIN inodes # {}

\* C9: a Read of a non-empty (c, r) that no Write(c, r, _) was called for
\* fails with NotFound.
C9_ReadNeverWritten ==
    \A p \in Procs :
        (/\ ret[p].op = "read"
         /\ ret[p].c # <<>> /\ ret[p].r # <<>>
         /\ ~\E v \in Values : <<ret[p].c, ret[p].r, v>> \in written)
        => ret[p].err \in NotFoundErrs

\* Caller p's call returns in this step, and it was a Delete.
DeleteReturns(p) ==
    /\ ret'[p].n = ret[p].n + 1
    /\ ret'[p].op = "delete"

\* Caller p's Delete(c, r), with both names given, returns success in this
\* step, and the file of resource r was there when it started: the call
\* changed it, or it is still there.
DeleteSucceeds(p) ==
    /\ DeleteReturns(p)
    /\ ret'[p].err = "nil"
    /\ ret'[p].c # <<>> /\ ret'[p].r # <<>>
    /\ \/ FnlPath(ret'[p].c, ret'[p].r) \in ret'[p].changed
       \/ Image(fs', inodes', FnlPath(ret'[p].c, ret'[p].r)).kind = "file"

\* C10 as claimed: a Delete(c, r) that succeeds on a stored resource removes
\* the file of that resource and changes nothing else, whatever else is in c
\* (here: in a store where every Write so far had a serializable value).
C10_DeleteExactlyOne ==
    [][\A p \in Procs :
         (DeleteSucceeds(p) /\ \A w \in written : w[3] \in GoodValues)
         => ret'[p].changed = {FnlPath(ret'[p].c, ret'[p].r)}]_vars

\* C10 as amended: the same, when stat classified the target as a regular
\* file, that is, when c holds no directory named r.
C10_DeleteRegularFile ==
    [][\A p \in Procs :
         (DeleteSucceeds(p) /\ loc[p].kind = "file")
         => /\ ret'[p].changed = {FnlPath(ret'[p].c, ret'[p].r)}
            /\ FnlPath(ret'[p].c, ret'[p].r) \notin DOMAIN fs']_vars

\* A Delete has removed the file of its resource and a sibling resource of the
\* same collection is still there.
C10_Witness ==
    \E p \in Procs :
        /\ ret[p].op = "delete" /\ ret[p].err = "nil"
        /\ ret[p].c # <<>> /\ ret[p].r # <<>>
        /\ ret[p].changed = {FnlPath(ret[p].c, ret[p].r)}
        /\ \E r2 \in NonEmpty(Resources) \ {ret[p].r} :
               Image(fs, inodes, FnlPath(ret[p].c, r2)).kind = "file"

\* The resources stored in collection c: the names whose final file is there.
Stored(c) ==
    { r \in NonEmpty(Resources) : Image(fs, inodes, FnlPath(c, r)).kind = "file" }

\* Caller p's last call was ReadAll on a non-empty name, it has returned and no
\* call is in flight, so the filesystem is the one the ReadAll saw; every value
\* written so far was serializable.
ReadAllDone(p) ==
    /\ ret[p].op = "readall" /\ ret[p].c # <<>>
    /\ \A q \in Procs : pc[q] = "idle"
    /\ callers = {p}
    /\ \A w \in written : w[3] \in GoodValues

\* C11: with no call in flight, ReadAll(c) on a collection whose directory
\* exists succeeds and returns one element per stored resource, the content of
\* that resource's file, and nothing else.
C11_ReadAllStored ==
    \A p \in Procs :
        (ReadAllDone(p) /\ Image(fs, inodes, WriteDir(ret[p].c)).kind = "dir")
        => /\ ret[p].err = "nil"
           /\ Len(ret[p].records) = Cardinality(Stored(ret[p].c))
           /\ { ret[p].records[i] : i \in 1..Len(ret[p].records) } =
                 { Image(fs, inodes, FnlPath(ret[p].c, r)).b : r \in Stored(ret[p].c) }

\* C12: ReadAll(c) fails with NotFound when the directory of c does not exist,
\* whatever file <c>.json there is.
C12_ReadAllMissingDir ==
    \A p \in Procs :
        (ReadAllDone(p) /\ Image(fs, inodes, WriteDir(ret[p].c)).kind # "dir")
        => ret[p].err \in NotFoundErrs

\* C13: a Delete of a named resource of a named collection that returns an
\* error has changed nothing in the filesystem, and a Delete whose stat finds neither <c>/<r> nor <c>/<r>.json returns
\* NotFound without removing anything.
C13_FailedDeleteChangesNothing ==
    [][\A p \in Procs :
         /\ (DeleteReturns(p) /\ ret'[p].err # "nil"
                               /\ ret'[p].c # <<>> /\ ret'[p].r # <<>>)
            => (ret'[p].changed = {} /\ fs' = fs)
         /\ (/\ loc[p].op = "delete" /\ pc[p] = "stat2" /\ pc'[p] # "stat2"
             /\ DeleteDir(loc[p].path) \notin DOMAIN fs
             /\ AddSuffix(DeleteDir(loc[p].path), Ext) \notin DOMAIN fs)
            => (/\ DeleteReturns(p)
                /\ ret'[p].err = "Unable to find file or directory"
                /\ fs' = fs)]_vars

\* C14: a collection name in the lock registry stays there with the mutex it
\* was given, and callers that looked up the same name hold the same mutex.
C14_RegistryStable ==
    [][/\ \A c \in DOMAIN mutexes : c \in DOMAIN mutexes' /\ mutexes'[c] = mutexes[c]
       /\ \A p, q \in Procs :
            (loc'[p].m # 0 /\ loc'[q].m # 0 /\ loc'[p].c = loc'[q].c)
            => (loc'[p].m = loc'[q].m /\ loc'[p].m = mutexes'[loc'[p].c])]_vars

\* Two callers that both looked up a new collection name before either took
\* its lock have the same mutex.
C14_Witness ==
    \E p, q \in Procs :
        /\ p # q /\ pc[p] = "lock" /\ pc[q] = "lock"
        /\ loc[p].c = loc[q].c /\ loc[p].m = loc[q].m
        /\ DOMAIN mutexes = {loc[p].c}

\* C15: the registry lock is held only by a caller that is in the lookup of
\* getOrCreateMutex, which has no file open and no collection lock.
C15_RegistryLockOnlyInLookup ==
    /\ regLocked <=> \E p \in Procs : pc[p] = "gm_body"
    /\ \A p, q \in Procs : (pc[p] = "gm_body" /\ pc[q] = "gm_body") => p = q
    /\ \A p \in Procs : pc[p] = "gm_body" => (~loc[p].held /\ loc[p].fd = 0)

\* A caller is in the lookup while another caller, holding a collection lock,
\* is writing its temporary file.
C15_Witness ==
    \E p, q \in Procs :
        /\ regLocked /\ pc[p] = "gm_body"
        /\ loc[q].held /\ pc[q] = "w_write"

\* C16: every call that has started returns, and a collection lock that is
\* locked belongs to a call in flight.
C16_LocksReleased ==
    /\ \A p \in Procs : (pc[p] # "idle") ~> (pc[p] = "idle")
    /\ [](\A m \in DOMAIN mutexState :
            mutexState[m] => \E p \in Procs : loc[p].held /\ loc[p].m = m)

\* A Write and a Delete have returned an error after they took their lock, and
\* the lock is free.
C16_Witness ==
    \E p, q \in Procs :
        /\ ret[p].op = "write" /\ ret[p].err # "nil" /\ ret[p].ticket > 0
        /\ ret[q].op = "delete" /\ ret[q].err # "nil" /\ ret[q].ticket > 0
        /\ ~mutexState[ret[p].m] /\ ~mutexState[ret[q].m]

\* C17: a caller waiting for the lock of a collection waits only while a call
\* on that same collection name holds it.
C17_OtherCollectionsFree ==
    \A p \in Procs :
        (pc[p] = "lock" /\ \A q \in Procs \ {p} : loc[q].held => loc[q].c # loc[p].c)
        => ~mutexState[loc[p].m]

\* Calls on two different collections are in their critical sections at once.
C17_Witness ==
    \E p, q \in Procs :
        /\ loc[p].held /\ loc[q].held
        /\ loc[p].c # loc[q].c
        /\ pc[p] \in {"w_write", "w_rename"} /\ pc[q] \in {"d_unlink", "d_rmdir", "d_at"}

\* Every call made so far is one successful Write per caller, all to the same
\* collection and resource, overlapping in time, and all have returned.
C18_Writers ==
    /\ Cardinality(Called) = 2
    /\ nops = 2
    /\ \A p \in Called :
          pc[p] = "idle" /\ ret[p].op = "write" /\ ret[p].err = "nil" /\ ret[p].conc
    /\ \A p, q \in Called : ret[p].c = ret[q].c /\ ret[p].r = ret[q].r

\* C18: after two concurrent successful Writes to one resource, the final file
\* holds the value of the Write that took the collection lock last, and the
\* temporary file is gone.
C18_LastWriterWins ==
    C18_Writers =>
        \E p \in Called :
            /\ \A q \in Called : ret[q].ticket <= ret[p].ticket
            /\ Image(fs, inodes, FnlPath(ret[p].c, ret[p].r)) =
                  [kind |-> "file", b |-> Encode(ret[p].v)]
            /\ TempPath(ret[p].c, ret[p].r) \notin DOMAIN fs

\* Two such Writes of different values have returned.
C18_Witness ==
    /\ C18_Writers
    /\ \E p, q \in Called : ret[p].v # ret[q].v

\* The entries still to remove in the directories os.RemoveAll has open.
DirNames(l) == [i \in DOMAIN l.dirs |-> l.dirs[i].names]

\* Caller p's Delete takes a step.
DeleteActs(p) ==
    /\ loc[p].op = "delete"
    /\ \/ pc'[p] # pc[p]
       \/ ret'[p].n # ret[p].n
       \/ DirNames(loc'[p]) # DirNames(loc[p])

\* C19: when a Delete of a named resource of a named collection removes
\* something, no Write whose collection directory is the removed path or lies
\* inside it is in its critical section.
C19_DeleteExcludesWrites ==
    [][\A p, q \in Procs :
         (/\ DeleteActs(p)
          /\ loc[p].c # <<>> /\ loc[p].r # <<>>
          /\ loc[q].op = "write" /\ loc[q].held /\ loc[q].v \in GoodValues)
         => \A x \in DOMAIN fs \ DOMAIN fs' : ~IsPrefix(x, WriteDir(loc[q].c))]_vars

\* C20: a Delete(c, r) removes neither the store root nor anything outside the
\* directory of collection c.
C20_DeleteConfined ==
    [][\A p \in Procs :
         DeleteActs(p)
         => \A x \in DOMAIN fs \ DOMAIN fs' :
               x # Dir /\ IsPrefix(WriteDir(loc[p].c), x)]_vars

====
